---- MODULE Spec2Model ----
(***************************************************************************)
(* State-machine model of the ID-card scanner backend (src/Python).        *)
(*                                                                         *)
(* Numbers.  The code computes in floating point.  The model computes on a *)
(* fixed grid: pixel coordinates and contour areas are integers, a blend   *)
(* 0.8*a + 0.2*b is rounded to the nearest grid value, ratios are compared *)
(* by cross-multiplication (exactly), and detection scores are integers    *)
(* that are multiplied by the integer numerators of the code's factors     *)
(* (2.0 -> 20, 1.2 -> 12, 1.0 -> 10; 1.3 -> 13, 1.0 -> 10), which keeps    *)
(* their order.                                                            *)
(*                                                                         *)
(* Images.  The OpenCV pipeline (edges, contours, polygon approximation,   *)
(* Laplacian, FFT, connected components) is a pure function of the frame.  *)
(* A frame of the model is the result of that pipeline: for each scale the *)
(* list valid_contours of _detect_at_scale, and the verdicts of the blur   *)
(* and glare analyzers.  Everything the code does with these results is    *)
(* modelled step by step.                                                  *)
(***************************************************************************)
EXTENDS Integers, Sequences, FiniteSets, TLC

VARIABLES
    quad,       \* _order_corners: the 4x2 input array
    ord1,       \* _order_corners(quad), <<>> before the call
    ord2,       \* _order_corners(_order_corners(quad)), <<>> before the call
    guide,      \* a stand-alone DistanceGuide: its last_status
    gcall,      \* the last analyze_distance call on it: ratio and returned status
    det,        \* a stand-alone CardDetector (its four tracking fields)
    dcall,      \* the last call on it: operation, frame and return value
    validator,  \* a stand-alone QualityValidator: its detector and distance guide
    vcall,      \* the last validate call on it: frame and returned result
    session,    \* the ScannerSession of one websocket connection
    msg,        \* the last message the connection handled (type, mode, decoded frame)
    sent,       \* the responses the handler sent for it, in order
    valid_run,  \* consecutive valid auto-mode frames since the last reset or auto-capture
    sessions,   \* the ScannerSession of each of several open connections
    alone,      \* for each connection, the session of a run with its messages only
    op,         \* the last message handled on any of them, with its responses
    arg,        \* the argument of a pure function under test
    ret,        \* what the function returned for it, <<>> before the call
    misses      \* frames without a card received since the last located card, -1 if none since the reset

orderVars == <<quad, ord1, ord2>>
distVars == <<guide, gcall>>
detVars == <<det, dcall>>
valVars == <<validator, vcall>>
sessVars == <<session, msg, sent, valid_run>>
isoVars == <<sessions, alone, op>>
fnVars == <<arg, ret>>
runVars == <<misses>>

vars == <<quad, ord1, ord2, guide, gcall, det, dcall, validator, vcall, session, msg, sent, valid_run, sessions, alone, op, arg, ret, misses>>

----------------------------------------------------------------------------
(* Arithmetic helpers *)

Abs(x) == IF x < 0 THEN -x ELSE x

\* n/d rounded to the nearest integer (n >= 0, d > 0)
RoundDiv(n, d) == (2 * n + d) \div (2 * d)

\* Python's None for an optional array or number: the empty sequence
None == <<>>

----------------------------------------------------------------------------
(* card_detector.py: CardDetector._order_corners *)

\* corners.sum(axis=1)
SumPoint(p) == p[1] + p[2]

\* np.diff(corners, axis=1): second column minus first column, y - x
DiffPoint(p) == p[2] - p[1]

\* np.argmin: the first index holding the minimum
ArgMin(f) ==
    CHOOSE i \in DOMAIN f :
        /\ \A j \in DOMAIN f : f[i] <= f[j]
        /\ \A j \in DOMAIN f : j < i => f[j] > f[i]

\* np.argmax: the first index holding the maximum
ArgMax(f) ==
    CHOOSE i \in DOMAIN f :
        /\ \A j \in DOMAIN f : f[i] >= f[j]
        /\ \A j \in DOMAIN f : j < i => f[j] < f[i]

\* a plausible slip: top-right and bottom-left picked with the extremes swapped
OrderCornersSwapped(corners) ==
    LET sum_points == [i \in 1..4 |-> SumPoint(corners[i])]
        diff_points == [i \in 1..4 |-> DiffPoint(corners[i])]
    IN  << corners[ArgMin(sum_points)], corners[ArgMax(diff_points)],
           corners[ArgMax(sum_points)], corners[ArgMin(diff_points)] >>

OrderCorners(corners) ==
    LET sum_points == [i \in 1..4 |-> SumPoint(corners[i])]
        diff_points == [i \in 1..4 |-> DiffPoint(corners[i])]
        top_left == corners[ArgMin(sum_points)]
        bottom_right == corners[ArgMax(sum_points)]
        top_right == corners[ArgMin(diff_points)]
        bottom_left == corners[ArgMax(diff_points)]
    IN  <<top_left, top_right, bottom_right, bottom_left>>

----------------------------------------------------------------------------
(* card_detector.py: CardDetector, the tracking state and detect_card *)

MaxConsecutiveFailures == 10

\* scale_factors = [1.0, 0.85, 0.7, 0.5], in percent
ScaleFactors == <<100, 85, 70, 50>>

\* CardDetector.__init__: the four tracking fields
NewDetector ==
    [ last_detected_area |-> None,
      last_detected_corners |-> None,
      consecutive_failures |-> 0,
      has_ever_detected |-> FALSE ]

\* a plausible slip: the reset forgets has_ever_detected
ResetSizeTrackingKeepsFlag(d) ==
    [ d EXCEPT !.last_detected_area = None,
               !.last_detected_corners = None,
               !.consecutive_failures = 0 ]

\* reset_size_tracking
ResetSizeTracking(d) ==
    [ last_detected_area |-> None,
      last_detected_corners |-> None,
      consecutive_failures |-> 0,
      has_ever_detected |-> FALSE ]

\* the boost of _detect_at_scale for a candidate whose area is close to
\* last_detected_area: area_diff <= 0.5 -> 2.0, area_diff <= 0.75 -> 1.2, else 1.0
\* (in tenths); area_diff = |area - last| / last
SizeFactor(lastArea, area) ==
    IF lastArea = None THEN 10
    ELSE LET last == lastArea[1]
         IN  IF 2 * Abs(area - last) <= last THEN 20
             ELSE IF 4 * Abs(area - last) <= 3 * last THEN 12
             ELSE 10

\* valid_contours[0] after the two stable descending sorts: the highest boosted
\* score; among equals the highest unboosted score; among equals the first found
BestIndex(cs, lastArea) ==
    LET boosted(i) == cs[i].score * SizeFactor(lastArea, cs[i].area)
        Before(i, j) ==
            \/ boosted(i) > boosted(j)
            \/ boosted(i) = boosted(j) /\ cs[i].score > cs[j].score
            \/ boosted(i) = boosted(j) /\ cs[i].score = cs[j].score /\ i <= j
    IN  CHOOSE i \in 1..Len(cs) : \A j \in 1..Len(cs) : Before(i, j)

\* the moving average of the card area: 0.8 * last + 0.2 * best_area
UpdateArea(lastArea, best_area) ==
    IF lastArea = None THEN <<best_area>>
    ELSE <<RoundDiv(4 * lastArea[1] + best_area, 5)>>

\* the return value of _detect_at_scale for the best contour c, and the
\* updated last_detected_area
BestContour(c, lastArea) ==
    [ found |-> TRUE,
      corners |-> OrderCorners(c.corners),
      score |-> c.score * SizeFactor(lastArea, c.area),
      area |-> UpdateArea(lastArea, c.area) ]

\* _detect_at_scale on the valid contours cs of one scale: None, or the ordered
\* corners and boosted score of the best contour; it updates last_detected_area
DetectAtScale(cs, lastArea) ==
    IF cs = <<>>
    THEN [ found |-> FALSE, corners |-> None, score |-> 0, area |-> lastArea ]
    ELSE BestContour(cs[BestIndex(cs, lastArea)], lastArea)

\* corners / scale
ScaleBack(corners, pct) ==
    IF pct = 100 THEN corners
    ELSE [ i \in 1..4 |-> << RoundDiv(100 * corners[i][1], pct),
                             RoundDiv(100 * corners[i][2], pct) >> ]

\* score *= 1.3 at full scale (in tenths)
ScaleBoost(pct) == IF pct = 100 THEN 13 ELSE 10

RECURSIVE ScanScales(_, _, _, _, _)

\* one pass of the loop of detect_card: result is what _detect_at_scale
\* returned for scale number i
ScanStep(i, cands, best_result, best_score, result) ==
    IF result.found /\ result.score * ScaleBoost(ScaleFactors[i]) > best_score
    THEN ScanScales(i + 1, cands, result.area,
                    ScaleBack(result.corners, ScaleFactors[i]),
                    result.score * ScaleBoost(ScaleFactors[i]))
    ELSE ScanScales(i + 1, cands, result.area, best_result, best_score)

\* the loop of detect_card over scale_factors, from scale number i on
ScanScales(i, cands, lastArea, best_result, best_score) ==
    IF i > Len(ScaleFactors)
    THEN [ area |-> lastArea, best_result |-> best_result, best_score |-> best_score ]
    ELSE ScanStep(i, cands, best_result, best_score, DetectAtScale(cands[i], lastArea))

\* a plausible slip: the weights of the smoothing swapped
BlendTowardsNew(last, new) ==
    [ i \in 1..4 |-> << RoundDiv(last[i][1] + 4 * new[i][1], 5),
                        RoundDiv(last[i][2] + 4 * new[i][2], 5) >> ]

\* corner_smoothing_alpha * last + (1 - corner_smoothing_alpha) * new, alpha = 0.8
Blend(last, new) ==
    [ i \in 1..4 |-> << RoundDiv(4 * last[i][1] + new[i][1], 5),
                        RoundDiv(4 * last[i][2] + new[i][2], 5) >> ]

\* a plausible slip: the grace period ends one frame early
RetainsStrict(d) ==
    /\ d.has_ever_detected
    /\ d.consecutive_failures < MaxConsecutiveFailures
    /\ d.last_detected_corners # None

\* the retention test of detect_card, after the failure was counted
Retains(d) ==
    /\ d.has_ever_detected
    /\ d.consecutive_failures <= MaxConsecutiveFailures
    /\ d.last_detected_corners # None

\* a plausible slip: the reset forgets has_ever_detected
GiveUpKeepsFlag(d) ==
    IF d.consecutive_failures > MaxConsecutiveFailures
    THEN [ d EXCEPT !.last_detected_corners = None, !.consecutive_failures = 0 ]
    ELSE d

\* the reset of detect_card after too many failures
GiveUp(d) ==
    IF d.consecutive_failures > MaxConsecutiveFailures
    THEN [ d EXCEPT !.last_detected_corners = None,
                    !.has_ever_detected = FALSE,
                    !.consecutive_failures = 0 ]
    ELSE d

\* detect_card after a successful detection: smoothing, and the return value
TrackSuccess(d, best_result) ==
    [ det |-> [ d EXCEPT !.consecutive_failures = 0,
                         !.has_ever_detected = TRUE,
                         !.last_detected_corners =
                             IF d.last_detected_corners # None
                             THEN Blend(d.last_detected_corners, best_result)
                             ELSE best_result ],
      found |-> TRUE,
      corners |-> IF d.last_detected_corners # None
                  THEN Blend(d.last_detected_corners, best_result)
                  ELSE best_result ]

\* a plausible slip: the stored corners are returned however long the card
\* has been missing
TrackFailureNoLimit(d) ==
    IF d.has_ever_detected /\ d.last_detected_corners # None
    THEN [ det |-> d, found |-> TRUE, corners |-> d.last_detected_corners ]
    ELSE [ det |-> GiveUp(d), found |-> FALSE, corners |-> None ]

\* detect_card after a frame without detection; d has the failure counted
TrackFailure(d) ==
    IF Retains(d)
    THEN [ det |-> d, found |-> TRUE, corners |-> d.last_detected_corners ]
    ELSE [ det |-> GiveUp(d), found |-> FALSE, corners |-> None ]

\* detect_card after the loop over the scales
Track(d, scan) ==
    IF scan.best_result # None
    THEN TrackSuccess([ d EXCEPT !.last_detected_area = scan.area ], scan.best_result)
    ELSE TrackFailure([ d EXCEPT !.last_detected_area = scan.area,
                                 !.consecutive_failures = @ + 1 ])

\* detect_card(frame): the detector after the call, and the returned pair
DetectCard(d, frame) ==
    IF ~frame.present
    THEN [ det |-> d, found |-> FALSE, corners |-> None ]
    ELSE Track(d, ScanScales(1, frame.cands, d.last_detected_area, None, 0))

----------------------------------------------------------------------------
(* distance_guide.py: DistanceGuide, the status with hysteresis.  Area      *)
(* ratios are fractions num/den; the thresholds are in thousandths.         *)

MinAreaRatio == 100
MaxAreaRatio == 750
OptimalMin == 250
OptimalMax == 600
HysteresisThreshold == 20

\* num/den < t/1000, num/den > t/1000 (den > 0)
RatioBelow(num, den, t) == 1000 * num < t * den
RatioAbove(num, den, t) == 1000 * num > t * den

\* new_status: the band of the area ratio
RawStatus(num, den) ==
    IF RatioBelow(num, den, MinAreaRatio) THEN "too_far"
    ELSE IF RatioAbove(num, den, MaxAreaRatio) THEN "too_close"
    ELSE IF ~RatioBelow(num, den, OptimalMin) /\ ~RatioAbove(num, den, OptimalMax)
         THEN "optimal"
    ELSE IF RatioBelow(num, den, OptimalMin) THEN "too_far"
    ELSE "too_close"

\* a plausible slip: hysteresis on leaving the optimal zone only
SuppressedLeavingOnly(last, new_status, num, den) ==
    /\ new_status # last
    /\ last = "optimal"
    /\ \/ new_status = "too_far" /\ ~RatioBelow(num, den, OptimalMin - HysteresisThreshold)
       \/ new_status = "too_close" /\ ~RatioAbove(num, den, OptimalMax + HysteresisThreshold)

\* the branches of _determine_status_with_hysteresis that return last_status
Suppressed(last, new_status, num, den) ==
    /\ new_status # last
    /\ \/ /\ last = "optimal"
          /\ new_status = "too_far"
          /\ ~RatioBelow(num, den, OptimalMin - HysteresisThreshold)
       \/ /\ last = "optimal"
          /\ new_status = "too_close"
          /\ ~RatioAbove(num, den, OptimalMax + HysteresisThreshold)
       \/ /\ last = "too_far"
          /\ new_status = "optimal"
          /\ RatioBelow(num, den, OptimalMin + HysteresisThreshold)
       \/ /\ last = "too_close"
          /\ new_status = "optimal"
          /\ RatioAbove(num, den, OptimalMax - HysteresisThreshold)

\* a plausible slip: no hysteresis, the status follows the band of every frame
DetermineStatusRaw(last, num, den) ==
    [ last_status |-> RawStatus(num, den), status |-> RawStatus(num, den) ]

\* _determine_status_with_hysteresis: last_status after the call ("none" is
\* Python's None) and the returned status
DetermineStatus(last, num, den) ==
    LET new_status == RawStatus(num, den)
    IN  IF last = "none"
        THEN [ last_status |-> new_status, status |-> new_status ]
        ELSE IF Suppressed(last, new_status, num, den)
        THEN [ last_status |-> last, status |-> last ]
        ELSE [ last_status |-> new_status, status |-> new_status ]

\* the message of analyze_distance for a status
DistanceMessage(status) ==
    CASE status = "optimal" -> "Distance OK"
      [] status = "too_far" -> "Move document closer"
      [] status = "too_close" -> "Move document farther"
      [] OTHER -> "Adjust distance"

----------------------------------------------------------------------------
(* The analyzers on (frame, card_corners) *)

\* twice the signed area of the polygon (cv2.contourArea is half its magnitude)
Shoelace(q) ==
    LET n == Len(q)
        nxt(i) == IF i = n THEN 1 ELSE i + 1
        term(i) == q[i][1] * q[nxt(i)][2] - q[nxt(i)][1] * q[i][2]
    IN  term(1) + term(2) + term(3) + term(4)

\* six times the first moments of the polygon (cv2.moments: m10 and m01, up to
\* the sign and factor they share with m00)
MomentX(q) ==
    LET nxt(i) == IF i = 4 THEN 1 ELSE i + 1
        term(i) == (q[i][1] + q[nxt(i)][1]) * (q[i][1] * q[nxt(i)][2] - q[nxt(i)][1] * q[i][2])
    IN  term(1) + term(2) + term(3) + term(4)

MomentY(q) ==
    LET nxt(i) == IF i = 4 THEN 1 ELSE i + 1
        term(i) == (q[i][2] + q[nxt(i)][2]) * (q[i][1] * q[nxt(i)][2] - q[nxt(i)][1] * q[i][2])
    IN  term(1) + term(2) + term(3) + term(4)

\* the result of analyze_distance for the status r with hysteresis
DistanceResult(r) ==
    [ last_status |-> r.last_status,
      is_optimal |-> (r.status = "optimal"),
      message |-> DistanceMessage(r.status),
      status |-> r.status ]

\* DistanceGuide.analyze_distance: last_status after the call and the result
AnalyzeDistance(last, frame, card_corners) ==
    IF ~frame.present \/ card_corners = None
    THEN [ last_status |-> last, is_optimal |-> FALSE,
           message |-> "Card not detected", status |-> "unknown" ]
    ELSE IF frame.height * frame.width > 0
    THEN DistanceResult(DetermineStatus(last, Abs(Shoelace(card_corners)),
                                        2 * frame.height * frame.width))
    ELSE DistanceResult(DetermineStatus(last, 0, 1))

\* center_threshold_ratio = 0.15, in percent
CenterThresholdRatio == 15

\* the verdict of analyze_centering for the offsets dx, dy of the card centre
\* from the frame centre, against the thresholds (all on one common scale)
CenteringVerdict(dx, dy, threshold_x, threshold_y) ==
    IF Abs(dx) <= threshold_x /\ Abs(dy) <= threshold_y
    THEN [ is_centered |-> TRUE, message |-> "Centered", status |-> "centered" ]
    ELSE [ is_centered |-> FALSE,
           message |-> IF Abs(dx) > Abs(dy)
                       THEN (IF dx > 0 THEN "Move document left" ELSE "Move document right")
                       ELSE (IF dy > 0 THEN "Move document up" ELSE "Move document down"),
           status |-> "off_center" ]

\* analyze_centering for a polygon with S = Shoelace # 0 and first moments
\* mx, my: the centroid is (mx / 3S, my / 3S); offsets and thresholds are
\* multiplied by 600|S|
CenteringOf(frame, S, mx, my) ==
    CenteringVerdict((IF S < 0 THEN -100 ELSE 100) * (2 * mx - 3 * S * frame.width),
                     (IF S < 0 THEN -100 ELSE 100) * (2 * my - 3 * S * frame.height),
                     6 * Abs(S) * frame.width * CenterThresholdRatio,
                     6 * Abs(S) * frame.height * CenterThresholdRatio)

\* CenteringGuide.analyze_centering
AnalyzeCentering(frame, card_corners) ==
    IF ~frame.present \/ card_corners = None
    THEN [ is_centered |-> FALSE, message |-> "Card not detected", status |-> "off_center" ]
    ELSE IF Shoelace(card_corners) = 0
    THEN [ is_centered |-> FALSE, message |-> "Center document", status |-> "off_center" ]
    ELSE CenteringOf(frame, Shoelace(card_corners), MomentX(card_corners), MomentY(card_corners))

\* BlurDetector.detect_blur: is_blurry.  The verdict of the metrics on the card
\* region is the frame's.
DetectBlur(frame, card_corners) ==
    IF ~frame.present THEN TRUE ELSE frame.blurry

\* GlareDetector.detect_glare: the frame's glare verdict is "ok", "many" (more
\* than 3 hotspots), "strong" (more than twice the allowed share) or "avoid"
DetectGlare(frame, card_corners) ==
    IF ~frame.present \/ card_corners = None
    THEN [ is_acceptable |-> FALSE, message |-> "Card not detected" ]
    ELSE CASE frame.glare = "ok" -> [ is_acceptable |-> TRUE, message |-> "Glare acceptable" ]
           [] frame.glare = "many" -> [ is_acceptable |-> FALSE, message |-> "Too many reflections" ]
           [] frame.glare = "strong" ->
                  [ is_acceptable |-> FALSE, message |-> "Strong reflections detected" ]
           [] OTHER -> [ is_acceptable |-> FALSE, message |-> "Avoid reflections" ]

----------------------------------------------------------------------------
(* quality_validator.py: QualityValidator *)

\* QualityValidator.__init__: its own CardDetector and DistanceGuide (the blur,
\* glare and centering analyzers hold no state)
NewValidator == [ card_detector |-> NewDetector, distance_guide |-> "none" ]

\* a plausible slip: glare and centering block validity as well
IsValidStrict(card_detected, is_sharp, distance_optimal, glare_acceptable, is_centered) ==
    card_detected /\ is_sharp /\ distance_optimal /\ glare_acceptable /\ is_centered

\* result['is_valid'] of validate
IsValid(card_detected, is_sharp, distance_optimal, glare_acceptable, is_centered) ==
    card_detected /\ is_sharp /\ distance_optimal

\* validate when the card was found: the four checks are done, the result is
\* put together
ValidateFound(d, is_blurry, glare_result, distance_result, centering_result, is_valid) ==
    [ qv |-> [ card_detector |-> d.det, distance_guide |-> distance_result.last_status ],
      result |-> [ is_valid |-> is_valid,
                   card_detected |-> d.found,
                   is_sharp |-> ~is_blurry,
                   glare_acceptable |-> glare_result.is_acceptable,
                   distance_optimal |-> distance_result.is_optimal,
                   is_centered |-> centering_result.is_centered,
                   messages |->
                       (IF is_blurry THEN <<"Image is blurry">> ELSE <<>>)
                       \o (IF ~glare_result.is_acceptable THEN <<glare_result.message>> ELSE <<>>)
                       \o (IF ~distance_result.is_optimal
                           THEN <<distance_result.message>> ELSE <<>>)
                       \o (IF is_valid THEN <<"Quality check passed">> ELSE <<>>),
                   card_corners |-> d.corners ] ]

\* validate when the card was found: overall validity from the four checks
ValidateChecks(d, is_blurry, glare_result, distance_result, centering_result) ==
    ValidateFound(d, is_blurry, glare_result, distance_result, centering_result,
                  IsValid(d.found, ~is_blurry, distance_result.is_optimal,
                          glare_result.is_acceptable, centering_result.is_centered))

\* validate after its detect_card call returned d
ValidateDetected(qv, frame, d) ==
    IF ~d.found
    THEN [ qv |-> [ qv EXCEPT !.card_detector = d.det ],
           result |-> [ is_valid |-> FALSE, card_detected |-> FALSE, is_sharp |-> FALSE,
                        glare_acceptable |-> FALSE, distance_optimal |-> FALSE,
                        is_centered |-> FALSE, messages |-> <<"Card not detected">>,
                        card_corners |-> d.corners ] ]
    ELSE ValidateChecks(d, DetectBlur(frame, d.corners), DetectGlare(frame, d.corners),
                        AnalyzeDistance(qv.distance_guide, frame, d.corners),
                        AnalyzeCentering(frame, d.corners))

\* validate(frame): the validator after the call and the result
Validate(qv, frame) == ValidateDetected(qv, frame, DetectCard(qv.card_detector, frame))

----------------------------------------------------------------------------
(* main.py: ScannerSession *)

AutoCaptureThreshold == 30
HistorySize == 5
DetectionThreshold == 3

\* ScannerSession.__init__ (the stateless analyzers and the fixed thresholds
\* are left out)
NewSession ==
    [ card_detector |-> NewDetector,
      distance_guide |-> "none",
      quality_validator |-> NewValidator,
      good_frames_count |-> 0,
      last_detected_corners |-> None,
      detection_history |-> <<>> ]

\* sum(history): the number of True entries
RECURSIVE SumTrue(_)
SumTrue(h) == IF h = <<>> THEN 0 ELSE (IF Head(h) THEN 1 ELSE 0) + SumTrue(Tail(h))

\* history[-3:]
LastThree(h) == IF Len(h) <= 3 THEN h ELSE SubSeq(h, Len(h) - 2, Len(h))

\* the response of process_frame when it reports no card
NoCardGuidance ==
    [ type |-> "guidance", card_detected |-> FALSE, message |-> "Place document in frame",
      distance |-> "unknown", centering |-> "unknown", blur |-> "unknown",
      glare |-> "unknown", ready_to_capture |-> FALSE, card_corners |-> None ]

\* a plausible slip: blur is reported before distance and centering
PrimaryMessageBlurFirst(distance_result, centering_result, is_blurry, glare_result) ==
    IF is_blurry THEN "Too blurry"
    ELSE IF distance_result.status # "optimal" THEN distance_result.message
    ELSE IF ~centering_result.is_centered THEN centering_result.message
    ELSE IF ~glare_result.is_acceptable THEN glare_result.message
    ELSE "Hold still..."

\* primary_message of process_frame
PrimaryMessage(distance_result, centering_result, is_blurry, glare_result) ==
    IF distance_result.status # "optimal" THEN distance_result.message
    ELSE IF ~centering_result.is_centered THEN centering_result.message
    ELSE IF is_blurry THEN "Too blurry"
    ELSE IF ~glare_result.is_acceptable THEN glare_result.message
    ELSE "Hold still..."

\* a plausible slip: a frame that is not ready leaves the counter as it is
CountGoodFrameNoReset(count, ready_to_capture, mode) ==
    IF ready_to_capture /\ mode = "auto" THEN count + 1 ELSE count

\* the auto-capture counter update of process_frame
CountGoodFrame(count, ready_to_capture, mode) ==
    IF ready_to_capture /\ mode = "auto" THEN count + 1 ELSE 0

\* the early return of process_frame: no card.  d is what detect_card returned,
\* history the updated detection_history
NoCardReturn(s, d, history, last_corners) ==
    [ session |->
          [ s EXCEPT
              !.card_detector =
                  IF SumTrue(history) = 0
                     /\ (Len(history) = 0 \/ SumTrue(LastThree(history)) = 0)
                  THEN ResetSizeTracking(d.det) ELSE d.det,
              !.detection_history = history,
              !.good_frames_count = 0,
              !.last_detected_corners = IF SumTrue(history) = 0 THEN None ELSE last_corners ],
      resp |-> NoCardGuidance ]

\* the end of process_frame: counter update and response, from the results of
\* the analyzers and of the validator (v)
GuidanceReturn(s, mode, d, history, card_corners, last_corners, distance_result, centering_result, is_blurry, glare_result, v) ==
    [ session |->
          [ card_detector |-> d.det,
            distance_guide |-> distance_result.last_status,
            quality_validator |-> v.qv,
            good_frames_count |->
                CountGoodFrame(s.good_frames_count, v.result.is_valid, mode),
            last_detected_corners |-> last_corners,
            detection_history |-> history ],
      resp |->
          [ type |-> "guidance",
            card_detected |-> (SumTrue(history) >= DetectionThreshold),
            message |-> PrimaryMessage(distance_result, centering_result,
                                       is_blurry, glare_result),
            distance |-> distance_result.status,
            centering |-> centering_result.status,
            blur |-> IF is_blurry THEN "blurry" ELSE "sharp",
            glare |-> IF ~glare_result.is_acceptable THEN "excessive" ELSE "acceptable",
            ready_to_capture |-> v.result.is_valid,
            card_corners |-> card_corners ] ]

\* process_frame once the card to analyse is settled: card_found and
\* card_corners after the use of the last known corners
ProcessTracked(s, frame, mode, d, history, card_found, card_corners, last_corners) ==
    IF ~(SumTrue(history) >= DetectionThreshold) /\ ~card_found
    THEN NoCardReturn(s, d, history, last_corners)
    ELSE GuidanceReturn(s, mode, d, history, card_corners, last_corners,
                        AnalyzeDistance(s.distance_guide, frame, card_corners),
                        AnalyzeCentering(frame, card_corners),
                        DetectBlur(frame, card_corners),
                        DetectGlare(frame, card_corners),
                        Validate(s.quality_validator, frame))

\* a plausible slip: no session-level retention, a missing detection is a
\* missing card
ProcessDetectedNoRetention(s, frame, mode, d, history) ==
    IF d.found
    THEN ProcessTracked(s, frame, mode, d, history, TRUE, d.corners, d.corners)
    ELSE ProcessTracked(s, frame, mode, d, history, FALSE, d.corners, s.last_detected_corners)

\* process_frame after detect_card returned d and the history was updated:
\* the last known corners stand in for a missing detection
ProcessDetected(s, frame, mode, d, history) ==
    IF ~d.found /\ s.last_detected_corners # None /\ SumTrue(history) > 0
    THEN ProcessTracked(s, frame, mode, d, history, TRUE,
                        s.last_detected_corners, s.last_detected_corners)
    ELSE IF d.found
    THEN ProcessTracked(s, frame, mode, d, history, TRUE, d.corners, d.corners)
    ELSE ProcessTracked(s, frame, mode, d, history, FALSE, d.corners, s.last_detected_corners)

\* a plausible slip: a full history keeps its oldest entry and drops the newest
PushHistoryKeepOldest(h, found) ==
    IF Len(h) + 1 > HistorySize THEN h ELSE Append(h, found)

\* detection_history after appending found
PushHistory(h, found) ==
    IF Len(h) + 1 > HistorySize THEN Tail(Append(h, found)) ELSE Append(h, found)

\* process_frame after detect_card returned d
ProcessAfterDetect(s, frame, mode, d) ==
    ProcessDetected(s, frame, mode, d, PushHistory(s.detection_history, d.found))

\* process_frame(frame, mode): the session after the call and the response
ProcessFrame(s, frame, mode) ==
    ProcessAfterDetect(s, frame, mode, DetectCard(s.card_detector, frame))

\* WarpTransformer.warp_card returns an image (not None)
WarpSucceeds(frame, card_corners) == frame.present /\ card_corners # None

\* capture_card after validate returned v
CaptureValidated(s, frame, v) ==
    [ session |-> [ s EXCEPT !.quality_validator = v.qv ],
      resp |->
          IF ~v.result.is_valid
          THEN [ type |-> "capture", success |-> FALSE,
                 message |-> "Image does not meet quality requirements" ]
          ELSE IF ~WarpSucceeds(frame, v.result.card_corners)
          THEN [ type |-> "capture", success |-> FALSE,
                 message |-> "Failed to extract card image" ]
          ELSE [ type |-> "capture", success |-> TRUE,
                 message |-> "Card captured successfully" ] ]

\* capture_card(frame): the session after the call and the response
CaptureCard(s, frame) == CaptureValidated(s, frame, Validate(s.quality_validator, frame))

\* reset_auto_capture
ResetAutoCapture(s) == [ s EXCEPT !.good_frames_count = 0 ]

\* a plausible slip: the reset leaves the detection history
ResetTrackingKeepsHistory(s) ==
    [ s EXCEPT !.last_detected_corners = None,
               !.good_frames_count = 0,
               !.card_detector = ResetSizeTracking(s.card_detector) ]

\* reset_tracking
ResetTracking(s) ==
    [ s EXCEPT !.last_detected_corners = None,
               !.detection_history = <<>>,
               !.good_frames_count = 0,
               !.card_detector = ResetSizeTracking(s.card_detector) ]

\* a plausible slip: the auto-capture test is strict
AutoCaptureDueStrict(mode, count) == mode = "auto" /\ count > AutoCaptureThreshold

\* the auto-capture test of the frame handler
AutoCaptureDue(mode, count) == mode = "auto" /\ count >= AutoCaptureThreshold

----------------------------------------------------------------------------
(* Frames.  A frame is absent (None) or carries what the image pipeline     *)
(* finds in it: cands[i], the valid contours at scale ScaleFactors[i], each *)
(* with its polygon (in contour order, in the scaled frame), contour area   *)
(* and detection score; the blur verdict; the glare verdict.                *)

\* the rectangle with corners (x0,y0) and (x1,y1), as a contour starting at
\* its bottom-right vertex
Rect(x0, y0, x1, y1) == << <<x1, y1>>, <<x0, y1>>, <<x0, y0>>, <<x1, y0>> >>

Contour(corners, area, score) == [ corners |-> corners, area |-> area, score |-> score ]

\* frames are 40 wide and 25 high (frame.shape)
Frame(c100, c85, c70, c50, blurry, glare) ==
    [ present |-> TRUE, width |-> 40, height |-> 25,
      cands |-> <<c100, c85, c70, c50>>, blurry |-> blurry, glare |-> glare ]

\* frame is None
NoFrame ==
    [ present |-> FALSE, width |-> 0, height |-> 0,
      cands |-> <<>>, blurry |-> TRUE, glare |-> "none" ]

\* an array without pixels (size 0)
ZeroSizeFrame ==
    [ present |-> TRUE, width |-> 0, height |-> 0,
      cands |-> <<>>, blurry |-> TRUE, glare |-> "none" ]

\* detect_card hands the frame to _detect_at_scale at scale 1.0 first, whose
\* cv2.cvtColor raises cv2.error on an array without pixels; nothing in
\* detect_card catches it
DetectRaises(frame) == frame.present /\ (frame.width = 0 \/ frame.height = 0)

\* no valid contour at any scale
EmptyFrame == Frame(<<>>, <<>>, <<>>, <<>>, FALSE, "ok")

\* the locator finds a card in the frame: some scale has a contour that can win
Located(frame) ==
    /\ frame.present
    /\ \E i \in 1..Len(frame.cands) : \E k \in 1..Len(frame.cands[i]) :
           frame.cands[i][k].score > 0

\* a frame with one card contour at full scale (area 26, score 24)
CardFrame(corners, blurry, glare) ==
    Frame(<<Contour(corners, 26, 24)>>, <<>>, <<>>, <<>>, blurry, glare)

\* the card in the middle of the frame, 26% of the frame area
GoodCard == CardFrame(Rect(10, 6, 30, 19), FALSE, "ok")
BlurryCard == CardFrame(Rect(10, 6, 30, 19), TRUE, "ok")
GlareCard == CardFrame(Rect(10, 6, 30, 19), FALSE, "avoid")
BlurryGlareCard == CardFrame(Rect(10, 6, 30, 19), TRUE, "many")

\* the same card lower in the frame: off centre by 16% of the frame height
LowCard == CardFrame(Rect(10, 10, 30, 23), FALSE, "ok")
LowBlurryCard == CardFrame(Rect(10, 10, 30, 23), TRUE, "strong")

\* the card seen smaller, 20% of the frame area: in the middle, and lower
FarCard == CardFrame(Rect(10, 6, 30, 16), FALSE, "ok")
FarLowBlurryCard == CardFrame(Rect(10, 12, 30, 22), TRUE, "avoid")

\* frames for the stand-alone detector (coordinates on a 40 x 25 grid)
WideCard == Frame(<<Contour(Rect(10, 6, 30, 19), 26, 24)>>, <<>>, <<>>, <<>>, FALSE, "ok")
FlatCard == Frame(<<Contour(Rect(10, 6, 30, 14), 16, 19)>>, <<>>, <<>>, <<>>, FALSE, "ok")
HalfScaleCard == Frame(<<>>, <<>>, <<>>, <<Contour(Rect(5, 3, 15, 9), 6, 8)>>, FALSE, "ok")
TwoContours ==
    Frame(<<Contour(Rect(10, 6, 26, 19), 12, 14), Contour(Rect(10, 6, 30, 19), 26, 24)>>,
          <<>>, <<Contour(Rect(7, 4, 21, 13), 13, 15)>>, <<>>, FALSE, "ok")

\* a card seen at an angle: a quadrilateral without axis-parallel sides
TiltedCard ==
    Frame(<<Contour(<< <<29, 20>>, <<9, 17>>, <<12, 5>>, <<31, 8>> >>, 25, 22)>>,
          <<>>, <<>>, <<>>, FALSE, "ok")

DetFrames == { NoFrame, EmptyFrame, WideCard, FlatCard, HalfScaleCard, TwoContours }

\* frames for the stand-alone validator
ValFrames ==
    { NoFrame, EmptyFrame, GoodCard, BlurryCard, GlareCard, LowCard, FarCard, LowBlurryCard }

----------------------------------------------------------------------------
(* Inputs of _order_corners: convex quadrilaterals on a small grid, given  *)
(* in contour order (either orientation, any starting vertex).             *)

MaxCoord == 3

GridPoints == (0..MaxCoord) \X (0..MaxCoord)

Cross(o, a, b) == (a[1] - o[1]) * (b[2] - o[2]) - (a[2] - o[2]) * (b[1] - o[1])

\* the four turns of the closed polygon q[1] q[2] q[3] q[4]
Turns(q) == { Cross(q[1], q[2], q[3]), Cross(q[2], q[3], q[4]),
              Cross(q[3], q[4], q[1]), Cross(q[4], q[1], q[2]) }

IsConvexQuad(q) == (\A t \in Turns(q) : t > 0) \/ (\A t \in Turns(q) : t < 0)

QuadInputs == { q \in GridPoints \X GridPoints \X GridPoints \X GridPoints : IsConvexQuad(q) }

----------------------------------------------------------------------------
(* The parts of the state a specification does not use stay as constructed *)

OrderIdle ==
    /\ quad = << <<0, 0>>, <<1, 0>>, <<1, 1>>, <<0, 1>> >>
    /\ ord1 = None
    /\ ord2 = None

DistIdle ==
    /\ guide = "none"
    /\ gcall = [ prev |-> None, ratio |-> 0, status |-> "none" ]

DetIdle ==
    /\ det = NewDetector
    /\ dcall = [ op |-> "new" ]

ValIdle ==
    /\ validator = NewValidator
    /\ vcall = [ op |-> "new" ]

SessIdle ==
    /\ session = NewSession
    /\ msg = [ type |-> "none", mode |-> "none" ]
    /\ sent = <<>>
    /\ valid_run = 0

RunIdle == misses = -1

IsoIdle ==
    /\ sessions = <<>>
    /\ alone = <<>>
    /\ op = [ type |-> "none" ]

FnIdle ==
    /\ arg = None
    /\ ret = None

----------------------------------------------------------------------------
(* _order_corners applied once and twice to a quadrilateral *)

InitOrder ==
    /\ IsoIdle
    /\ RunIdle
    /\ FnIdle
    /\ quad \in QuadInputs
    /\ ord1 = None
    /\ ord2 = None
    /\ DistIdle
    /\ DetIdle
    /\ ValIdle
    /\ SessIdle

OrderOnce ==
    /\ ord1 = None
    /\ ord1' = OrderCorners(quad)
    /\ UNCHANGED <<quad, ord2, distVars, detVars, sessVars, valVars, isoVars, fnVars, runVars>>

OrderTwice ==
    /\ ord1 # None
    /\ ord2 = None
    /\ ord2' = OrderCorners(ord1)
    /\ UNCHANGED <<quad, ord1, distVars, detVars, sessVars, valVars, isoVars, fnVars, runVars>>

NextOrder == OrderOnce \/ OrderTwice

SpecOrder == InitOrder /\ [][NextOrder]_vars

----------------------------------------------------------------------------
(* A stand-alone DistanceGuide driven by area ratios k/RatioGrid *)

RatioGrid == 100

InitDist ==
    /\ IsoIdle
    /\ RunIdle
    /\ FnIdle
    /\ OrderIdle
    /\ guide = "none"
    /\ gcall = [ prev |-> None, ratio |-> 0, status |-> "none" ]
    /\ DetIdle
    /\ ValIdle
    /\ SessIdle

\* analyze_distance on corners whose area is k/RatioGrid of the frame area
AnalyzeRatio(k) ==
    LET r == DetermineStatus(guide, k, RatioGrid)
    IN  /\ guide' = r.last_status
        /\ gcall' = [ prev |-> IF gcall.status = "none" THEN None ELSE <<gcall.ratio>>,
                      ratio |-> k, status |-> r.status ]
        /\ UNCHANGED <<orderVars, detVars, sessVars, valVars, isoVars, fnVars, runVars>>

NextDist == \E k \in 0..RatioGrid : AnalyzeRatio(k)

SpecDist == InitDist /\ [][NextDist]_vars

----------------------------------------------------------------------------
(* A stand-alone CardDetector *)

InitDet ==
    /\ IsoIdle
    /\ RunIdle
    /\ FnIdle
    /\ OrderIdle
    /\ DistIdle
    /\ det = NewDetector
    /\ dcall = [ op |-> "new" ]
    /\ ValIdle
    /\ SessIdle

CallDetectCard(frame) ==
    LET r == DetectCard(det, frame)
    IN  /\ det' = r.det
        /\ dcall' = [ op |-> "detect", frame |-> frame, found |-> r.found, corners |-> r.corners ]
        /\ UNCHANGED <<orderVars, distVars, sessVars, valVars, isoVars, fnVars, runVars>>

CallResetSizeTracking ==
    /\ det' = ResetSizeTracking(det)
    /\ dcall' = [ op |-> "reset" ]
    /\ UNCHANGED <<orderVars, distVars, sessVars, valVars, isoVars, fnVars, runVars>>

\* detect_card on a frame for which it raises: the exception leaves the loop
\* over the scales before any tracking field is written
CallDetectCardRaising(frame) ==
    /\ DetectRaises(frame)
    /\ det' = det
    /\ dcall' = [ op |-> "raised", frame |-> frame ]
    /\ UNCHANGED <<orderVars, distVars, sessVars, valVars, isoVars, fnVars, runVars>>

NextDet ==
    \/ \E frame \in DetFrames : CallDetectCard(frame)
    \/ CallDetectCardRaising(ZeroSizeFrame)
    \/ CallResetSizeTracking

SpecDet == InitDet /\ [][NextDet]_vars

----------------------------------------------------------------------------
(* A stand-alone QualityValidator *)

InitVal ==
    /\ IsoIdle
    /\ RunIdle
    /\ FnIdle
    /\ OrderIdle
    /\ DistIdle
    /\ DetIdle
    /\ validator = NewValidator
    /\ vcall = [ op |-> "new" ]
    /\ SessIdle

\* the validator and vcall after validate returned v
ReturnValidate(frame, v) ==
    /\ validator' = v.qv
    /\ vcall' = [ op |-> "validate", frame |-> frame, result |-> v.result ]

CallValidate(frame) ==
    /\ ReturnValidate(frame, Validate(validator, frame))
    /\ UNCHANGED <<orderVars, distVars, detVars, sessVars, isoVars, fnVars, runVars>>

NextVal == \E frame \in ValFrames : CallValidate(frame)

SpecVal == InitVal /\ [][NextVal]_vars

----------------------------------------------------------------------------
(* One websocket connection: websocket_endpoint with its ScannerSession *)

\* the frames of the auto-capture runs
SessFrames == { EmptyFrame, GoodCard, BlurryCard }

\* the frames of the guidance runs
GuideFrames ==
    { EmptyFrame, GoodCard, GlareCard, BlurryGlareCard, LowBlurryCard, FarLowBlurryCard }

\* the frames sent with a manual capture request
CaptureFrames == { GoodCard }

Modes == { "auto", "manual" }

Init ==
    /\ IsoIdle
    /\ RunIdle
    /\ FnIdle
    /\ OrderIdle
    /\ DistIdle
    /\ DetIdle
    /\ ValIdle
    /\ session = NewSession
    /\ msg = [ type |-> "none", mode |-> "none" ]
    /\ sent = <<>>
    /\ valid_run = 0

\* the frame handler after process_frame returned p: the guidance response
\* alone
GuidanceOnly(mode, p) ==
    /\ ~AutoCaptureDue(mode, p.session.good_frames_count)
    /\ session' = p.session
    /\ sent' = <<p.resp>>
    /\ valid_run' = IF p.resp.ready_to_capture /\ mode = "auto" THEN valid_run + 1 ELSE 0

\* the frame handler after process_frame returned p: the guidance response,
\* then the auto-capture (c is what capture_card returns) and the counter reset
GuidanceAndAutoCapture(mode, p, c) ==
    /\ AutoCaptureDue(mode, p.session.good_frames_count)
    /\ session' = ResetAutoCapture(c.session)
    /\ sent' = <<p.resp, c.resp>>
    /\ valid_run' = 0

\* the frame handler after process_frame returned p
HandleProcessed(frame, mode, p) ==
    \/ GuidanceOnly(mode, p)
    \/ GuidanceAndAutoCapture(mode, p, CaptureCard(p.session, frame))

\* a "frame" message whose image decodes: process_frame, the guidance response,
\* then the auto-capture when it is due
FrameMessage(frame, mode) ==
    /\ HandleProcessed(frame, mode, ProcessFrame(session, frame, mode))
    /\ msg' = [ type |-> "frame", mode |-> mode, frame |-> frame ]
    /\ UNCHANGED <<orderVars, distVars, detVars, valVars, isoVars, fnVars, runVars>>

\* the capture handler after capture_card returned c
SendCapture(c) ==
    /\ session' = c.session
    /\ sent' = <<c.resp>>

\* a "capture" message whose image decodes: the manual capture
CaptureMessage(frame) ==
    /\ SendCapture(CaptureCard(session, frame))
    /\ msg' = [ type |-> "capture", mode |-> "none", frame |-> frame ]
    /\ UNCHANGED <<valid_run, orderVars, distVars, detVars, valVars, isoVars, fnVars, runVars>>

\* a "reset" message
ResetMessage ==
    /\ session' = ResetTracking(session)
    /\ sent' = << [ type |-> "reset", message |-> "Session reset" ] >>
    /\ msg' = [ type |-> "reset", mode |-> "none" ]
    /\ valid_run' = 0
    /\ UNCHANGED <<orderVars, distVars, detVars, valVars, isoVars, fnVars, runVars>>

\* invalid JSON, an unknown type, a missing or undecodable image: an error
\* response and nothing else
RejectedMessage ==
    /\ sent' = << [ type |-> "error" ] >>
    /\ msg' = [ type |-> "rejected", mode |-> "none" ]
    /\ UNCHANGED <<session, valid_run, orderVars, distVars, detVars, valVars, isoVars, fnVars, runVars>>

Next ==
    \/ \E frame \in SessFrames, mode \in Modes : FrameMessage(frame, mode)
    \/ \E frame \in CaptureFrames : CaptureMessage(frame)
    \/ ResetMessage
    \/ RejectedMessage

Spec == Init /\ [][Next]_vars

\* a "frame" message in manual mode: the auto-capture is never due
ManualFrameMessage(frame) ==
    /\ GuidanceOnly("manual", ProcessFrame(session, frame, "manual"))
    /\ msg' = [ type |-> "frame", mode |-> "manual", frame |-> frame ]
    /\ UNCHANGED <<orderVars, distVars, detVars, valVars, isoVars, fnVars, runVars>>

\* the same connection with a client that stays in manual mode and requests
\* no capture, on the wider set of frames
NextGuide ==
    \/ \E frame \in GuideFrames : ManualFrameMessage(frame)
    \/ ResetMessage
    \/ RejectedMessage

SpecGuide == Init /\ [][NextGuide]_vars

----------------------------------------------------------------------------
(* Properties of _order_corners (SpecOrder) *)

\* C5: corner ordering is idempotent: ordering the ordered corners again gives
\* the same four corners in the same places.
C5_OrderIdempotent == ord2 # None => ord2 = ord1

SumsOf(q) == { SumPoint(q[i]) : i \in 1..4 }
DiffsOf(q) == { DiffPoint(q[i]) : i \in 1..4 }
InputPoints == { quad[i] : i \in 1..4 }

\* top-left has the minimal and bottom-right the maximal x+y of the input
SumCornersRight ==
    /\ ord1[1] \in InputPoints /\ \A v \in SumsOf(quad) : SumPoint(ord1[1]) <= v
    /\ ord1[3] \in InputPoints /\ \A v \in SumsOf(quad) : SumPoint(ord1[3]) >= v

\* C6 as stated: top-right has the minimal x-y, bottom-left the maximal x-y.
C6_OrderByXMinusY ==
    ord1 # None =>
        /\ SumCornersRight
        /\ ord1[2] \in InputPoints /\ \A v \in DiffsOf(quad) : -DiffPoint(ord1[2]) <= -v
        /\ ord1[4] \in InputPoints /\ \A v \in DiffsOf(quad) : -DiffPoint(ord1[4]) >= -v

\* C6 amended: the result is [top-left, top-right, bottom-right, bottom-left]
\* with top-left the input point of minimal x+y, bottom-right of maximal x+y,
\* top-right of minimal y-x (that is, maximal x-y) and bottom-left of maximal y-x.
C6_OrderByYMinusX ==
    ord1 # None =>
        /\ Len(ord1) = 4
        /\ SumCornersRight
        /\ ord1[2] \in InputPoints /\ \A v \in DiffsOf(quad) : DiffPoint(ord1[2]) <= v
        /\ ord1[4] \in InputPoints /\ \A v \in DiffsOf(quad) : DiffPoint(ord1[4]) >= v

\* an axis-aligned rectangle given from its bottom-right corner has been ordered
C6_Witness ==
    /\ quad = << <<3, 2>>, <<0, 2>>, <<0, 0>>, <<3, 0>> >>
    /\ ord1 = << <<0, 0>>, <<3, 0>>, <<3, 2>>, <<0, 2>> >>

----------------------------------------------------------------------------
(* Properties of the tracking state of a CardDetector (SpecDet) *)

\* the step is a detect_card call on a present frame in which no card is located
FailedDetectStep == dcall'.op = "detect" /\ dcall'.frame.present /\ ~Located(dcall'.frame)

\* C1 (retention law): with has_ever_detected and fewer than
\* max_consecutive_failures failures, a detect_card call on a present frame with
\* no card returns found with exactly the stored corners and leaves them stored.
C1_Retention ==
    [][ ( /\ FailedDetectStep
          /\ det.has_ever_detected
          /\ det.consecutive_failures < MaxConsecutiveFailures )
        => ( /\ dcall'.found
             /\ dcall'.corners = det.last_detected_corners
             /\ dcall'.corners # None
             /\ det'.last_detected_corners = det.last_detected_corners ) ]_vars

\* a failed frame was answered from the stored corners, at the very end of the
\* grace period
C1_Witness ==
    /\ dcall.op = "detect" /\ dcall.frame.present /\ ~Located(dcall.frame)
    /\ dcall.found
    /\ dcall.corners = det.last_detected_corners
    /\ det.consecutive_failures = MaxConsecutiveFailures

\* C2 (reset law): the failure that exceeds max_consecutive_failures returns
\* not found and clears the corners, has_ever_detected and the counter; and a
\* detector that has no detection answers every frame without a card with not
\* found and stays without detection, so found stays false until a card is
\* located again.
C2_Reset ==
    [][ /\ ( /\ FailedDetectStep
             /\ det.has_ever_detected
             /\ det.consecutive_failures = MaxConsecutiveFailures )
           => ( /\ ~dcall'.found
                /\ dcall'.corners = None
                /\ det'.last_detected_corners = None
                /\ ~det'.has_ever_detected
                /\ det'.consecutive_failures = 0 )
        /\ ( /\ FailedDetectStep
             /\ ~det.has_ever_detected )
           => ( /\ ~dcall'.found
                /\ ~det'.has_ever_detected ) ]_vars

\* the detector gave up after a detection: the failure counter is back at 0
\* right after a failed frame, and the area average of the lost card is still there
C2_Witness ==
    /\ dcall.op = "detect" /\ dcall.frame.present /\ ~Located(dcall.frame)
    /\ ~dcall.found
    /\ det.consecutive_failures = 0
    /\ ~det.has_ever_detected
    /\ det.last_detected_area # None

----------------------------------------------------------------------------
(* Properties of the distance hysteresis (SpecDist) *)

\* the ratio k/RatioGrid is strictly within the hysteresis margin of boundary b
NearBoundary(b, k) == Abs(1000 * k - b * RatioGrid) < HysteresisThreshold * RatioGrid

\* C4: two successive analyze_distance calls whose area ratios both lie strictly
\* within the hysteresis margin of the same optimal-band boundary return the
\* same status; so over a sequence of such calls the status returned by the
\* first never changes.
C4_NoFlipInsideMargin ==
    [][ \A b \in {OptimalMin, OptimalMax} :
            ( /\ gcall.status # "none"
              /\ NearBoundary(b, gcall.ratio)
              /\ NearBoundary(b, gcall'.ratio) )
            => gcall'.status = gcall.status ]_vars

\* a call at 26% kept the status too_far of the call at 24% before it
C4_Witness ==
    /\ gcall.prev # None
    /\ 100 * gcall.prev[1] = 24 * RatioGrid
    /\ 100 * gcall.ratio = 26 * RatioGrid
    /\ gcall.status = "too_far"
    /\ guide = "too_far"

----------------------------------------------------------------------------
(* Properties of QualityValidator.validate (SpecVal) *)

\* C7: validate reports is_valid exactly when card_detected, is_sharp and
\* distance_optimal all hold, whatever glare_acceptable and is_centered are;
\* when no card is detected every flag is false and messages is exactly
\* ['Card not detected'].
C7_ValidityRule ==
    vcall.op = "validate" =>
        /\ vcall.result.is_valid <=>
               ( /\ vcall.result.card_detected
                 /\ vcall.result.is_sharp
                 /\ vcall.result.distance_optimal )
        /\ ~vcall.result.card_detected =>
               /\ ~vcall.result.is_valid
               /\ ~vcall.result.is_sharp
               /\ ~vcall.result.glare_acceptable
               /\ ~vcall.result.distance_optimal
               /\ ~vcall.result.is_centered
               /\ vcall.result.messages = <<"Card not detected">>

\* a sharp card at an optimal distance was reported valid although it is off
\* centre
C7_Witness ==
    /\ vcall.op = "validate"
    /\ vcall.result.is_valid
    /\ vcall.result.card_detected
    /\ vcall.result.glare_acceptable
    /\ ~vcall.result.is_centered

----------------------------------------------------------------------------
(* Properties of the guidance responses (SpecGuide) *)

\* the messages of analyze_centering for a card that is not centered
CenteringMessages ==
    { "Move document left", "Move document right", "Move document up",
      "Move document down", "Center document" }

\* the messages of detect_glare for unacceptable glare
GlareMessages == { "Too many reflections", "Strong reflections detected", "Avoid reflections" }

\* C8: a guidance response for a frame with a (live or retained) card carries
\* the distance message if the distance status is not optimal; otherwise the
\* centering message if the card is not centered; otherwise "Too blurry" if
\* blurry; otherwise the glare message if glare is not acceptable; otherwise
\* "Hold still...".
C8_MessagePriority ==
    (msg.type = "frame" /\ sent[1].card_corners # None) =>
        /\ sent[1].distance # "optimal" =>
               sent[1].message = DistanceMessage(sent[1].distance)
        /\ (sent[1].distance = "optimal" /\ sent[1].centering # "centered") =>
               sent[1].message \in CenteringMessages
        /\ ( /\ sent[1].distance = "optimal" /\ sent[1].centering = "centered"
             /\ sent[1].blur = "blurry" ) =>
               sent[1].message = "Too blurry"
        /\ ( /\ sent[1].distance = "optimal" /\ sent[1].centering = "centered"
             /\ sent[1].blur # "blurry" /\ sent[1].glare = "excessive" ) =>
               sent[1].message \in GlareMessages
        /\ ( /\ sent[1].distance = "optimal" /\ sent[1].centering = "centered"
             /\ sent[1].blur # "blurry" /\ sent[1].glare # "excessive" ) =>
               sent[1].message = "Hold still..."

\* an off-centre, blurred card with reflections at an optimal distance got the
\* centering message
C8_Witness ==
    /\ msg.type = "frame"
    /\ sent[1].card_corners # None
    /\ sent[1].distance = "optimal"
    /\ sent[1].centering = "off_center"
    /\ sent[1].blur = "blurry"
    /\ sent[1].glare = "excessive"
    /\ sent[1].message = "Move document up"

----------------------------------------------------------------------------
(* Properties of the connection (Spec) *)

\* C3: after reset_tracking all session-scoped state has its initial value: the
\* track state of every CardDetector and the last_status of every DistanceGuide
\* the session uses, detection_history, retained corners and good_frames_count.
C3_ResetRestoresAll == msg.type = "reset" => session = NewSession

\* the step handles a frame message that was valid in auto mode
ValidAutoFrame == msg'.type = "frame" /\ msg'.mode = "auto" /\ sent'[1].ready_to_capture

\* the step handles a frame message that ended with an auto-capture
AutoCaptured == msg'.type = "frame" /\ Len(sent') = 2

\* C9 as stated: the counter is the number of consecutive valid auto-mode frames
\* since the last reset or capture, any capture: it starts at 0, a reset or a
\* capture (on request or automatic) puts it to 0, a valid auto-mode frame adds
\* 1, every other frame puts it to 0.
C9_CountSinceAnyCapture ==
    [][ /\ msg'.type \in {"reset", "capture"} => session'.good_frames_count = 0
        /\ msg'.type = "frame" =>
               session'.good_frames_count =
                   IF AutoCaptured THEN 0
                   ELSE IF ValidAutoFrame THEN session.good_frames_count + 1
                   ELSE 0
        /\ msg'.type = "rejected" =>
               session'.good_frames_count = session.good_frames_count ]_vars

\* C9 amended: the counter grows, by exactly 1, only on a frame that the
\* validator reports valid in auto mode; every other frame puts it to 0; a
\* capture on request leaves it as it is; so it is always the number of
\* consecutive valid auto-mode frames since the last reset or auto-capture.
C9_CountSinceAutoCapture ==
    /\ [](session.good_frames_count = valid_run)
    /\ [][ /\ session'.good_frames_count > session.good_frames_count =>
                  ( /\ ValidAutoFrame
                    /\ session'.good_frames_count = session.good_frames_count + 1 )
           /\ (msg'.type = "frame" /\ ~ValidAutoFrame) => session'.good_frames_count = 0
           /\ msg'.type = "capture" =>
                  session'.good_frames_count = session.good_frames_count ]_vars

\* a capture on request was answered in the middle of a run of valid auto-mode
\* frames, and the counter still holds the run
C9_Witness ==
    /\ msg.type = "capture"
    /\ sent[1].success
    /\ session.good_frames_count = 3
    /\ valid_run = 3

\* C10: for a frame message the auto-capture fires exactly when the mode is
\* auto and the counter has reached auto_capture_threshold; it sends the capture
\* response after the guidance and leaves the counter at 0; so between messages
\* the counter is below the threshold, and an auto-capture ends a run of
\* auto_capture_threshold consecutive valid auto-mode frames of its own.
C10_AutoCapture ==
    /\ [](session.good_frames_count < AutoCaptureThreshold)
    /\ [][ msg'.type = "frame" =>
               /\ AutoCaptured <=>
                      ( /\ ValidAutoFrame
                        /\ session.good_frames_count + 1 >= AutoCaptureThreshold )
               /\ AutoCaptured =>
                      ( /\ sent'[1].type = "guidance"
                        /\ sent'[2].type = "capture"
                        /\ session'.good_frames_count = 0
                        /\ valid_run = AutoCaptureThreshold - 1
                        /\ valid_run' = 0 ) ]_vars

\* an auto-capture has just fired and succeeded
C10_Witness ==
    /\ msg.type = "frame"
    /\ msg.mode = "auto"
    /\ Len(sent) = 2
    /\ sent[2].type = "capture"
    /\ sent[2].success
    /\ session.good_frames_count = 0

\* what the session's tracker returns for the frame of the message handled in
\* the step
TrackerResult == DetectCard(session.card_detector, msg'.frame)

\* C11 as stated: the history always holds the most recent (up to 5) tracker
\* results, whatever happened in between: a frame appends its result and drops
\* the oldest beyond 5, and no other message changes what the most recent
\* results are.
C11_HistoryOfAllFrames ==
    [][ /\ msg'.type = "frame" =>
               session'.detection_history =
                   IF Len(session.detection_history) < 5
                   THEN Append(session.detection_history, TrackerResult.found)
                   ELSE Append(Tail(session.detection_history), TrackerResult.found)
        /\ msg'.type \in {"capture", "reset", "rejected"} =>
               session'.detection_history = session.detection_history ]_vars

\* C11 amended: detection_history never holds more than 5 entries and holds
\* the most recent (up to 5) tracker results since the last reset, in arrival
\* order: a frame appends its result and drops the oldest beyond 5, a reset
\* empties the history, a capture or a rejected message leaves it; and a
\* guidance response that carries analysis results has card_detected true
\* exactly when at least 3 entries of the history are true.
C11_HistorySinceReset ==
    /\ [](Len(session.detection_history) <= 5)
    /\ []( (msg.type = "frame" /\ sent[1].card_corners # None) =>
               ( sent[1].card_detected <=>
                     Cardinality({ i \in DOMAIN session.detection_history :
                                       session.detection_history[i] }) >= 3 ) )
    /\ [][ /\ msg'.type = "frame" =>
                  session'.detection_history =
                      IF Len(session.detection_history) < 5
                      THEN Append(session.detection_history, TrackerResult.found)
                      ELSE Append(Tail(session.detection_history), TrackerResult.found)
           /\ msg'.type = "reset" => session'.detection_history = <<>>
           /\ msg'.type \in {"capture", "rejected"} =>
                  session'.detection_history = session.detection_history ]_vars

\* a full history with two detections left: the response carries the analysis
\* of the retained card and reports card_detected false
C11_Witness ==
    /\ msg.type = "frame"
    /\ session.detection_history = <<TRUE, TRUE, FALSE, FALSE, FALSE>>
    /\ sent[1].card_corners # None
    /\ ~sent[1].card_detected

\* the step handles a frame for which the tracker reports no card while the
\* session holds retained corners and the history, with this frame recorded,
\* still has a detection
SessionRetentionStep ==
    /\ msg'.type = "frame"
    /\ ~TrackerResult.found
    /\ session.last_detected_corners # None
    /\ \E i \in DOMAIN session'.detection_history : session'.detection_history[i]

\* C12 (session-level retention): in such a step process_frame treats the card
\* as found: the response is not the no-card response, it returns the retained
\* corners, the distance, centering, blur and glare it reports are those of the
\* analyzers on the retained corners, and the retained corners stay as they are.
C12_SessionRetention ==
    [][ SessionRetentionStep =>
            /\ sent'[1].message # "Place document in frame"
            /\ sent'[1].card_corners = session.last_detected_corners
            /\ session'.last_detected_corners = session.last_detected_corners
            /\ sent'[1].distance =
                   AnalyzeDistance(session.distance_guide, msg'.frame,
                                   session.last_detected_corners).status
            /\ sent'[1].centering =
                   AnalyzeCentering(msg'.frame, session.last_detected_corners).status
            /\ sent'[1].blur =
                   (IF DetectBlur(msg'.frame, session.last_detected_corners)
                    THEN "blurry" ELSE "sharp")
            /\ sent'[1].glare =
                   (IF DetectGlare(msg'.frame, session.last_detected_corners).is_acceptable
                    THEN "acceptable" ELSE "excessive") ]_vars

\* the tracker has just given up on a frame without a card, and the response
\* still carries the corners the session retained
C12_Witness ==
    /\ msg.type = "frame"
    /\ msg.frame = EmptyFrame
    /\ session.detection_history = <<TRUE, TRUE, TRUE, TRUE, FALSE>>
    /\ ~session.card_detector.has_ever_detected
    /\ session.last_detected_corners # None
    /\ sent[1].card_corners = session.last_detected_corners
    /\ sent[1].distance = "optimal"

\* C13: whenever the three most recent detection_history entries are all false
\* after a frame has been recorded, process_frame has cleared the session's
\* retained corners and has called reset_size_tracking on its CardDetector.
C13_ClearAfterThreeMisses ==
    ( /\ msg.type = "frame"
      /\ Len(session.detection_history) >= 3
      /\ SumTrue(LastThree(session.detection_history)) = 0 )
    => ( /\ session.last_detected_corners = None
         /\ session.card_detector = ResetSizeTracking(session.card_detector) )

----------------------------------------------------------------------------
(* Several connections, each with the ScannerSession websocket_endpoint *)
(* creates for it, their messages interleaved (SpecIso)                   *)

NumConns == 2
Conns == 1..NumConns
\* the messages of a run, over all connections
MaxMsgs == 4
IsoFrames == {EmptyFrame, GoodCard}

\* the frame handler after process_frame returned p and, for the auto-capture,
\* capture_card returned c: the session it leaves and the responses it sends
AutoCaptureHandled(p, c) ==
    [ session |-> ResetAutoCapture(c.session), sent |-> <<p.resp, c.resp>> ]

FrameHandled(frame, mode, p) ==
    IF AutoCaptureDue(mode, p.session.good_frames_count)
    THEN AutoCaptureHandled(p, CaptureCard(p.session, frame))
    ELSE [ session |-> p.session, sent |-> <<p.resp>> ]

HandleFrame(s, frame, mode) == FrameHandled(frame, mode, ProcessFrame(s, frame, mode))

\* the capture handler after capture_card returned c
CaptureHandled(c) == [ session |-> c.session, sent |-> <<c.resp>> ]

HandleCapture(s, frame) == CaptureHandled(CaptureCard(s, frame))

HandleReset(s) ==
    [ session |-> ResetTracking(s),
      sent |-> << [ type |-> "reset", message |-> "Session reset" ] >> ]

\* a plausible slip: one module-level session that every connection uses
StoreShared(ss, c, s) == [ k \in DOMAIN ss |-> s ]

\* the session is a local variable of the connection's websocket_endpoint
\* call: what a handler does to it is seen by this connection only
StoreSession(ss, c, s) == [ ss EXCEPT ![c] = s ]

InitIso ==
    /\ RunIdle
    /\ OrderIdle
    /\ DistIdle
    /\ DetIdle
    /\ ValIdle
    /\ SessIdle
    /\ FnIdle
    /\ sessions = [ c \in Conns |-> NewSession ]
    /\ alone = [ c \in Conns |-> NewSession ]
    /\ op = [ type |-> "none", count |-> 0 ]

\* connection c handles a message: h is what its handler does on the session
\* of the connection, a what the same handler does in the run where this
\* connection is the only one; op counts the messages of the run
Handled(c, type, h, a) ==
    /\ op.count < MaxMsgs
    /\ sessions' = StoreSession(sessions, c, h.session)
    /\ alone' = [ alone EXCEPT ![c] = a.session ]
    /\ op' = [ type |-> type, conn |-> c, count |-> op.count + 1,
               sent |-> h.sent, sent_alone |-> a.sent ]
    /\ UNCHANGED <<orderVars, distVars, detVars, valVars, sessVars, fnVars, runVars>>

ConnFrame(c, frame, mode) ==
    Handled(c, "frame", HandleFrame(sessions[c], frame, mode), HandleFrame(alone[c], frame, mode))

ConnCapture(c, frame) ==
    Handled(c, "capture", HandleCapture(sessions[c], frame), HandleCapture(alone[c], frame))

ConnReset(c) ==
    Handled(c, "reset", HandleReset(sessions[c]), HandleReset(alone[c]))

NextIso ==
    \/ \E c \in Conns, frame \in IsoFrames, mode \in Modes : ConnFrame(c, frame, mode)
    \/ \E c \in Conns, frame \in IsoFrames : ConnCapture(c, frame)
    \/ \E c \in Conns : ConnReset(c)

SpecIso == InitIso /\ [][NextIso]_vars

----------------------------------------------------------------------------
(* More properties of the stand-alone CardDetector (SpecDet) *)

\* the step is a detect_card call on a null frame or on an empty one
NullOrEmptyStep ==
    /\ dcall'.op \in {"detect", "raised"}
    /\ (~dcall'.frame.present \/ dcall'.frame.width = 0 \/ dcall'.frame.height = 0)

\* C15: for a null or empty frame detect_card never raises and returns
\* found = false with no corners, whatever the tracker state (even during the
\* grace period), and it leaves the tracker state unchanged.
C15_NullOrEmptyFrame ==
    [][ NullOrEmptyStep =>
            /\ dcall'.op = "detect"
            /\ ~dcall'.found
            /\ dcall'.corners = None
            /\ det' = det ]_vars

----------------------------------------------------------------------------
(* A ScannerSession whose methods are called directly, with any frame *)
(* argument (SpecApi)                                                  *)

ApiFrames == {NoFrame, EmptyFrame, GoodCard}

\* the calls in auto mode stop at this many valid frames in a row (nothing
\* in process_frame bounds good_frames_count)
MaxGoodFrames == 3

\* session.process_frame(frame, mode) returned p
ProcessFrameReturned(p) ==
    /\ session' = p.session
    /\ sent' = <<p.resp>>

CallProcessFrame(frame, mode) ==
    /\ session.good_frames_count < MaxGoodFrames
    /\ ProcessFrameReturned(ProcessFrame(session, frame, mode))
    /\ msg' = [ type |-> "frame", mode |-> mode, frame |-> frame ]
    /\ UNCHANGED <<valid_run, orderVars, distVars, detVars, valVars, isoVars, fnVars, runVars>>

CallResetTracking ==
    /\ session' = ResetTracking(session)
    /\ sent' = <<>>
    /\ msg' = [ type |-> "reset", mode |-> "none" ]
    /\ UNCHANGED <<valid_run, orderVars, distVars, detVars, valVars, isoVars, fnVars, runVars>>

NextApi ==
    \/ \E frame \in ApiFrames, mode \in Modes : CallProcessFrame(frame, mode)
    \/ CallResetTracking

SpecApi == Init /\ [][NextApi]_vars

\* C16: for an absent frame passed to process_frame the response is the
\* no-card response (card_detected false, card_corners null, ready_to_capture
\* false) in every session state, also when the history holds recent
\* detections and retained corners exist.
C16_AbsentFrameNoCard ==
    (msg.type = "frame" /\ ~msg.frame.present)
    => ( /\ ~sent[1].card_detected
         /\ sent[1].card_corners = None
         /\ ~sent[1].ready_to_capture )

----------------------------------------------------------------------------
(* warp_transformer.py: WarpTransformer.  The sizes are computed in double  *)
(* precision: a double x with 2 <= x < 4 is its 53-bit mantissa x * 2^51,   *)
(* written as three digits <<a, b, c>> in base 2^18 (a * 2^36 + b * 2^18 +  *)
(* c), so that every intermediate value stays below 2^31.                   *)

Digit == 2^18

\* width_inches = CARD_WIDTH_MM / 25.4: the double 0x1.af5ebd7af5ebdp+1,
\* a little below 428/127
WidthInches == <<110430, 194027, 220861>>

\* height_inches = CARD_HEIGHT_MM / 25.4: the double 0x1.1006734d00673p+1,
\* a little above 2699/1270
HeightInches == <<69638, 118068, 1651>>

RECURSIVE BitLength(_)
BitLength(n) == IF n = 0 THEN 0 ELSE 1 + BitLength(n \div 2)

\* the exact product of the double x and the integer n (below 2^12), times
\* 2^51: top * 2^36 + mid * 2^18 + low
ExactProduct(x, n) ==
    LET t0 == x[3] * n
        t1 == x[2] * n + t0 \div Digit
    IN  [ top |-> x[1] * n + t1 \div Digit, mid |-> t1 % Digit, low |-> t0 % Digit ]

\* the bits of the exact product that do not fit in 53
DroppedBits(p) ==
    IF BitLength(p.top) + 36 > 53 THEN BitLength(p.top) + 36 - 53 ELSE 0

\* the double product rounds up (to nearest, ties to even) when s bits are
\* dropped
RoundsUp(p, s) ==
    /\ s > 0
    /\ \/ p.low % 2^s > 2^(s - 1)
       \/ p.low % 2^s = 2^(s - 1) /\ (p.low \div 2^s) % 2 = 1

\* every fraction bit the double keeps is 1: rounding up gives the next integer
FractionAllOnes(p, s) ==
    /\ p.top % 2^15 = 2^15 - 1
    /\ p.mid = Digit - 1
    /\ p.low \div 2^s = 2^(18 - s) - 1

\* int() of the double product whose exact value is p
IntOfProduct(p, s) ==
    IF RoundsUp(p, s) /\ FractionAllOnes(p, s)
    THEN p.top \div 2^15 + 1
    ELSE p.top \div 2^15

\* int(x * n) in double arithmetic
IntTimes(x, n) == IntOfProduct(ExactProduct(x, n), DroppedBits(ExactProduct(x, n)))

\* WarpTransformer(dpi = dpi): output_width and output_height
NewWarpTransformer(dpi) ==
    [ output_width |-> IntTimes(WidthInches, dpi),
      output_height |-> IntTimes(HeightInches, dpi) ]

\* warp_card: the size of the image it returns, None when it returns None
WarpCard(wt, frame, card_corners) ==
    IF WarpSucceeds(frame, card_corners)
    THEN [ width |-> wt.output_width, height |-> wt.output_height ]
    ELSE None

----------------------------------------------------------------------------
(* A WarpTransformer built with a DPI, then used (SpecWarp) *)

MaxDpi == 1200
WarpFrames == {NoFrame, GoodCard}
WarpCorners == {None, Rect(10, 6, 30, 19)}

InitWarp ==
    /\ OrderIdle
    /\ DistIdle
    /\ DetIdle
    /\ ValIdle
    /\ SessIdle
    /\ IsoIdle
    /\ RunIdle
    /\ arg \in [ dpi : 1..MaxDpi ]
    /\ ret = None

Construct ==
    /\ ret = None
    /\ ret' = [ wt |-> NewWarpTransformer(arg.dpi), called |-> FALSE, image |-> None ]
    /\ UNCHANGED <<arg, runVars, orderVars, distVars, detVars, valVars, sessVars, isoVars>>

CallWarpCard(frame, card_corners) ==
    /\ ret # None
    /\ ret' = [ ret EXCEPT !.called = TRUE, !.image = WarpCard(ret.wt, frame, card_corners) ]
    /\ UNCHANGED <<arg, runVars, orderVars, distVars, detVars, valVars, sessVars, isoVars>>

NextWarp ==
    \/ Construct
    \/ \E frame \in WarpFrames, card_corners \in WarpCorners : CallWarpCard(frame, card_corners)

SpecWarp == InitWarp /\ [][NextWarp]_vars

\* C17: a WarpTransformer built with a DPI and no explicit size has the output
\* dimensions (floor(DPI/25.4 * 85.60), floor(DPI/25.4 * 53.98)), that is
\* (floor(428 * DPI / 127), floor(2699 * DPI / 1270)), 337 x 212 at DPI 100,
\* and every image warp_card returns has exactly these dimensions.
C17_OutputDimensions ==
    ret # None =>
        /\ ret.wt.output_width = (428 * arg.dpi) \div 127
        /\ ret.wt.output_height = (2699 * arg.dpi) \div 1270
        /\ arg.dpi = 100 => ret.wt = [ output_width |-> 337, output_height |-> 212 ]
        /\ ret.image # None =>
               ret.image = [ width |-> (428 * arg.dpi) \div 127,
                             height |-> (2699 * arg.dpi) \div 1270 ]

----------------------------------------------------------------------------
(* The detect_card calls of a frame message (Spec) *)

\* process_frame takes its early return: the history, with this frame's
\* tracker result d recorded, is not stable and no card is found even with
\* the retained corners
ReturnsEarly(s, d) ==
    /\ ~(SumTrue(PushHistory(s.detection_history, d.found)) >= DetectionThreshold)
    /\ ~d.found
    /\ ~(s.last_detected_corners # None
         /\ SumTrue(PushHistory(s.detection_history, d.found)) > 0)

\* the detect_card calls on the session's own CardDetector while a frame
\* message is handled: the one at the start of process_frame
OwnDetectCalls == 1

\* the detect_card calls on the CardDetector of the session's QualityValidator
\* while the frame message of the step is handled: one in the validate call of
\* process_frame unless it returns early, one more in the validate call of
\* capture_card when the auto-capture fires
ValidatorDetectCalls ==
    (IF ReturnsEarly(session, TrackerResult) THEN 0 ELSE 1)
        + (IF Len(sent') = 2 THEN 1 ELSE 0)

\* C18: within one session, detect_card of each CardDetector the session owns
\* (its own and its validator's) runs exactly once per received frame, also on
\* frames for which the auto-capture fires; so after a frame each detector is
\* in the state one update leaves it in.
C18_OneUpdatePerFrame ==
    [][ msg'.type = "frame" =>
            /\ OwnDetectCalls = 1
            /\ ValidatorDetectCalls = 1
            /\ session'.quality_validator.card_detector =
                   DetectCard(session.quality_validator.card_detector, msg'.frame).det ]_vars

----------------------------------------------------------------------------
(* card_detector.py: the aspect-ratio filter of _detect_at_scale, on the   *)
(* bounding width w and height h of a candidate (SpecAspect).  The ratios  *)
(* are compared with the class constants ASPECT_RATIO_MIN = 1.3,           *)
(* ASPECT_RATIO_MAX = 1.8, VERTICAL_ASPECT_MIN = 0.55 and                  *)
(* VERTICAL_ASPECT_MAX = 0.77 by cross-multiplication.                     *)

\* is_horizontal: ASPECT_RATIO_MIN <= aspect_ratio <= ASPECT_RATIO_MAX, with
\* aspect_ratio = w / h, or 0 when h = 0
IsHorizontal(w, h) ==
    IF h > 0 THEN 13 * h <= 10 * w /\ 10 * w <= 18 * h ELSE FALSE

\* is_vertical: VERTICAL_ASPECT_MIN <= inverse_aspect <= VERTICAL_ASPECT_MAX,
\* with inverse_aspect = h / w, or 0 when w = 0
IsVertical(w, h) ==
    IF w > 0 THEN 55 * w <= 100 * h /\ 100 * h <= 77 * w ELSE FALSE

\* the candidate is kept
AspectAccepted(w, h) == IsHorizontal(w, h) \/ IsVertical(w, h)

MaxSide == 100

InitAspect ==
    /\ OrderIdle
    /\ DistIdle
    /\ DetIdle
    /\ ValIdle
    /\ SessIdle
    /\ IsoIdle
    /\ RunIdle
    /\ arg \in [ w : 1..MaxSide, h : 1..MaxSide ]
    /\ ret = None

CheckAspect ==
    /\ ret = None
    /\ ret' = [ accepted |-> AspectAccepted(arg.w, arg.h) ]
    /\ UNCHANGED <<arg, runVars, orderVars, distVars, detVars, valVars, sessVars, isoVars>>

NextAspect == CheckAspect

SpecAspect == InitAspect /\ [][NextAspect]_vars

\* a / b lies in the ID-card band [1.3, 1.8]
InCardBand(a, b) == 13 * b <= 10 * a /\ 10 * a <= 18 * b

\* C19: a candidate with bounding width w and height h passes the aspect-ratio
\* filter exactly when w/h or h/w lies in [1.3, 1.8]; a portrait card is
\* accepted just like a landscape one.
C19_AspectBand ==
    ret # None =>
        ( ret.accepted <=> (InCardBand(arg.w, arg.h) \/ InCardBand(arg.h, arg.w)) )

----------------------------------------------------------------------------
(* glare_detector.py: the verdict of detect_glare from the card area (in    *)
(* pixels) and the areas of the connected components of the glare mask      *)
(* (SpecGlare).  Fractions of the card area are in thousandths.             *)

\* min_hotspot_size
MinHotspotSize == 50
\* max_glare_percentage = 0.015
MaxGlarePercentage == 15

\* the component counts as a hotspot
IsSignificant(area) == area >= MinHotspotSize

RECURSIVE SumAreas(_)
SumAreas(comps) == IF comps = <<>> THEN 0 ELSE Head(comps) + SumAreas(Tail(comps))

\* significant_hotspots after the loop over the components
SignificantHotspots(comps) == Len(SelectSeq(comps, IsSignificant))

\* glare_pixels = np.sum(glare_no_edges == 255): every pixel of the mask,
\* that is of every component
GlarePixels(comps) == SumAreas(comps)

\* the message of detect_glare
GlareMessage(card_area, glare_pixels, significant_hotspots, is_acceptable) ==
    IF is_acceptable THEN "Glare acceptable"
    ELSE IF significant_hotspots > 3 THEN "Too many reflections"
    ELSE IF 1000 * glare_pixels > 2 * MaxGlarePercentage * card_area
    THEN "Strong reflections detected"
    ELSE "Avoid reflections"

\* is_acceptable
GlareAcceptable(card_area, glare_pixels, significant_hotspots) ==
    /\ 1000 * glare_pixels <= MaxGlarePercentage * card_area
    /\ significant_hotspots <= 3

\* the result of detect_glare (glare_percentage is glare_pixels / card_area)
GlareResult(card_area, glare_pixels, significant_hotspots) ==
    [ is_acceptable |-> GlareAcceptable(card_area, glare_pixels, significant_hotspots),
      message |-> GlareMessage(card_area, glare_pixels, significant_hotspots,
                               GlareAcceptable(card_area, glare_pixels, significant_hotspots)),
      glare_pixels |-> glare_pixels,
      hotspot_count |-> significant_hotspots ]

\* detect_glare from the components on
GlareOfComponents(card_area, comps) ==
    GlareResult(card_area, GlarePixels(comps), SignificantHotspots(comps))

GlareCardAreas == {4000, 10000}
ComponentAreas == {20, 50, 100}
MaxComponents == 5

InitGlare ==
    /\ OrderIdle
    /\ DistIdle
    /\ DetIdle
    /\ ValIdle
    /\ SessIdle
    /\ IsoIdle
    /\ RunIdle
    /\ \E n \in 0..MaxComponents :
           arg \in [ card_area : GlareCardAreas, comps : [1..n -> ComponentAreas] ]
    /\ ret = None

CallDetectGlare ==
    /\ ret = None
    /\ ret' = GlareOfComponents(arg.card_area, arg.comps)
    /\ UNCHANGED <<arg, runVars, orderVars, distVars, detVars, valVars, sessVars, isoVars>>

NextGlare == CallDetectGlare

SpecGlare == InitGlare /\ [][NextGlare]_vars

\* the components of at least min_hotspot_size pixels
Hotspots == SelectSeq(arg.comps, IsSignificant)

\* C20: components smaller than min_hotspot_size are discarded and affect
\* neither the hotspot count nor the glare fraction, and the result is
\* acceptable exactly when the glare fraction of the card area is at most
\* max_glare_percentage and there are at most 3 significant hotspots: the
\* result is that of the hotspots alone.
C20_SmallComponentsDiscarded ==
    ret # None =>
        /\ ret.hotspot_count = Len(Hotspots)
        /\ ret.glare_pixels = SumAreas(Hotspots)
        /\ ret.is_acceptable <=>
               ( /\ 1000 * SumAreas(Hotspots) <= MaxGlarePercentage * arg.card_area
                 /\ Len(Hotspots) <= 3 )

----------------------------------------------------------------------------
(* blur_detector.py: the verdict of detect_blur from the four metrics of    *)
(* the region and its mean brightness (SpecBlur).  The Laplacian variance   *)
(* and the brightness are whole numbers, fft_score and edge_sharpness are   *)
(* in hundredths, motion_blur_score and the weights in tenths; the adaptive *)
(* threshold is in 128ths.                                                  *)

\* blur_threshold = 40.0, fft_threshold = 0.1, edge_sharpness_threshold = 0.3
BlurThreshold == 40
FftThreshold == 10
EdgeSharpnessThreshold == 30

Max2(a, b) == IF a >= b THEN a ELSE b
Min2(a, b) == IF a <= b THEN a ELSE b

\* adaptive_threshold = max(20.0, min(60.0, blur_threshold * (mean / 128.0))),
\* times 128
AdaptiveThreshold(mean_brightness) ==
    Max2(20 * 128, Min2(60 * 128, BlurThreshold * mean_brightness))

\* the four 0/1 scores
LaplacianScore(m) ==
    IF 128 * m.laplacian_variance >= AdaptiveThreshold(m.mean_brightness) THEN 1 ELSE 0
FftScoreNormalized(m) == IF m.fft_score >= FftThreshold THEN 1 ELSE 0
EdgeScoreNormalized(m) == IF m.edge_sharpness >= EdgeSharpnessThreshold THEN 1 ELSE 0
MotionScoreNormalized(m) == IF m.motion_blur_score > 5 THEN 1 ELSE 0

\* combined_score, in tenths
CombinedScore(m) ==
    5 * LaplacianScore(m) + 2 * FftScoreNormalized(m)
        + 2 * EdgeScoreNormalized(m) + 1 * MotionScoreNormalized(m)

\* a plausible slip: a score of exactly 0.5 counts as blurry
ScoreIsBlurryInclusive(combined_score) == combined_score <= 5

\* is_blurry = combined_score < 0.5
ScoreIsBlurry(combined_score) == combined_score < 5

\* detect_blur from the metrics on: is_blurry and the threshold used
BlurOfMetrics(m) ==
    [ is_blurry |-> ScoreIsBlurry(CombinedScore(m)),
      adaptive_threshold |-> AdaptiveThreshold(m.mean_brightness) ]

BlurMetrics ==
    [ mean_brightness : {0, 32, 63, 64, 65, 100, 128, 191, 192, 193, 255},
      laplacian_variance : {0, 19, 20, 21, 31, 32, 40, 59, 60, 61},
      fft_score : {5, 10, 15},
      edge_sharpness : {29, 30, 31},
      motion_blur_score : {4, 5, 6} ]

InitBlur ==
    /\ OrderIdle
    /\ DistIdle
    /\ DetIdle
    /\ ValIdle
    /\ SessIdle
    /\ IsoIdle
    /\ RunIdle
    /\ arg \in BlurMetrics
    /\ ret = None

CallDetectBlur ==
    /\ ret = None
    /\ ret' = BlurOfMetrics(arg)
    /\ UNCHANGED <<arg, runVars, orderVars, distVars, detVars, valVars, sessVars, isoVars>>

NextBlur == CallDetectBlur

SpecBlur == InitBlur /\ [][NextBlur]_vars

\* the four tests of detect_blur on the metrics of the call
LaplacianPasses == 128 * arg.laplacian_variance >= ret.adaptive_threshold
FftPasses == 100 * arg.fft_score >= 100 * 10
EdgePasses == 100 * arg.edge_sharpness >= 100 * 30
MotionPasses == 10 * arg.motion_blur_score > 10 * 5

\* C21: detect_blur reports sharp exactly when the Laplacian test passes or
\* all three supporting tests (fft >= 0.1, edge >= 0.3, motion > 0.5) pass,
\* and blurry otherwise; the adaptive Laplacian threshold is always in [20, 60].
C21_BlurRule ==
    ret # None =>
        /\ ~ret.is_blurry <=> (LaplacianPasses \/ (FftPasses /\ EdgePasses /\ MotionPasses))
        /\ 20 * 128 <= ret.adaptive_threshold
        /\ ret.adaptive_threshold <= 60 * 128

\* sharp without the Laplacian test, on the three supporting tests alone, and
\* with the threshold strictly inside its band
C21_Witness ==
    /\ ret # None
    /\ ~ret.is_blurry
    /\ ~LaplacianPasses
    /\ ret.adaptive_threshold = 40 * 128
    /\ arg.laplacian_variance = 32

----------------------------------------------------------------------------
(* The tracker on successful detections of cards of different shapes       *)
(* (SpecTrack)                                                             *)

TrackFrames == { EmptyFrame, WideCard, FlatCard, TiltedCard }

NextTrack ==
    \/ \E frame \in TrackFrames : CallDetectCard(frame)
    \/ CallResetSizeTracking

SpecTrack == InitDet /\ [][NextTrack]_vars

\* what the loop over the scales finds in the frame of the step's call
ScanResult == ScanScales(1, dcall'.frame.cands, det.last_detected_area, None, 0)

\* the step is a detect_card call in which some scale detects a card
SuccessStep == dcall'.op = "detect" /\ dcall'.frame.present /\ ScanResult.best_result # None

\* r is 0.8 * s + 0.2 * n, to the nearest grid point
IsSmoothed(r, s, n) ==
    \A i \in 1..4 : \A k \in 1..2 : Abs(5 * r[i][k] - (4 * s[i][k] + n[i][k])) <= 2

\* q is in the order top-left, top-right, bottom-right, bottom-left: the
\* smallest and the largest x + y first and third, the smallest and the
\* largest y - x second and fourth
IsCanonical(q) ==
    \A i \in 1..4 :
        /\ SumPoint(q[1]) <= SumPoint(q[i])
        /\ SumPoint(q[3]) >= SumPoint(q[i])
        /\ DiffPoint(q[2]) <= DiffPoint(q[i])
        /\ DiffPoint(q[4]) >= DiffPoint(q[i])

----------------------------------------------------------------------------
(* The moving average of the card area (SpecDet) *)

\* the areas of the candidates of a frame, over all scales
CandidateAreas(frame) ==
    UNION { { frame.cands[i][k].area : k \in 1..Len(frame.cands[i]) } :
                i \in 1..Len(frame.cands) }

\* C23: the moving average of the card area changes at most once per frame
\* and only from the area of the detection detect_card accepts for the frame
\* (so: not at all without a detection, and otherwise by one update from the
\* area of one candidate of the frame), and a reset clears it.
C23_OneAreaUpdatePerFrame ==
    [][ /\ (dcall'.op = "detect" /\ dcall'.frame.present) =>
               \/ det'.last_detected_area = det.last_detected_area
               \/ /\ ScanResult.best_result # None
                  /\ \E a \in CandidateAreas(dcall'.frame) :
                         det'.last_detected_area = UpdateArea(det.last_detected_area, a)
        /\ dcall'.op = "reset" => det'.last_detected_area = None ]_vars

----------------------------------------------------------------------------
(* The distance state machine (SpecDist) *)

\* the raw band of the ratio k/RatioGrid: too_far below optimal_min (0.25),
\* optimal up to optimal_max (0.60), too_close above
RawBand(k) ==
    IF 100 * k < 25 * RatioGrid THEN "too_far"
    ELSE IF 100 * k <= 60 * RatioGrid THEN "optimal"
    ELSE "too_close"

\* C24: the first analyze_distance call sets the status to the raw band of the
\* ratio.  Afterwards the status leaves optimal only when the ratio is below
\* optimal_min - 0.02 or above optimal_max + 0.02, enters optimal from too_far
\* only when the ratio is at least optimal_min + 0.02 and from too_close only
\* when it is at most optimal_max - 0.02; a call that does not return the raw
\* band returns last_status and leaves it unchanged.
C24_DistanceStateMachine ==
    [][ /\ guide' = gcall'.status
        /\ guide = "none" => gcall'.status = RawBand(gcall'.ratio)
        /\ (guide = "optimal" /\ gcall'.status # "optimal") =>
               \/ 100 * gcall'.ratio < 23 * RatioGrid
               \/ 100 * gcall'.ratio > 62 * RatioGrid
        /\ (guide = "too_far" /\ gcall'.status = "optimal") =>
               100 * gcall'.ratio >= 27 * RatioGrid
        /\ (guide = "too_close" /\ gcall'.status = "optimal") =>
               100 * gcall'.ratio <= 58 * RatioGrid
        /\ gcall'.status # RawBand(gcall'.ratio) => guide' = guide ]_vars

\* a call at 59% of the frame, inside the optimal band, kept the status
\* too_close of the call at 70% before it
C24_Witness ==
    /\ gcall.prev # None
    /\ 100 * gcall.prev[1] = 70 * RatioGrid
    /\ 100 * gcall.ratio = 59 * RatioGrid
    /\ gcall.status = "too_close"
    /\ guide = "too_close"

----------------------------------------------------------------------------
(* The tracking fields of a CardDetector (SpecDet) *)

\* C25: after every detect_card or reset_size_tracking call, has_ever_detected
\* is true if and only if stored corners exist, and the failure counter is
\* between 0 and max_consecutive_failures.
C25_TrackingFieldsConsistent ==
    /\ det.has_ever_detected <=> det.last_detected_corners # None
    /\ det.consecutive_failures >= 0
    /\ det.consecutive_failures <= MaxConsecutiveFailures

\* a detector without a detection has just counted its tenth frame without a
\* card; and the same count with the corners of a detection still stored
C25_Witness ==
    /\ dcall.op = "detect" /\ dcall.frame.present
    /\ det.consecutive_failures = MaxConsecutiveFailures
    /\ \/ ~det.has_ever_detected /\ det.last_detected_corners = None /\ ~dcall.found
       \/ det.has_ever_detected /\ det.last_detected_corners # None /\ dcall.found

----------------------------------------------------------------------------
(* The retained corners and the detection history of a session (Spec) *)

\* C26: after every process_frame or reset_tracking call the retained corners
\* are non-null whenever detection_history contains a true entry; process_frame
\* returns the no-card response exactly when the history, with the current
\* frame recorded, contains no true entry; and every other response carries
\* the corners the analyzers were called with, which are never null.
C26_CornersWheneverDetected ==
    /\ []( (msg.type \in {"frame", "reset"} /\ SumTrue(session.detection_history) > 0)
               => session.last_detected_corners # None )
    /\ [][ msg'.type = "frame" =>
               /\ sent'[1] = NoCardGuidance <=> SumTrue(session'.detection_history) = 0
               /\ sent'[1] # NoCardGuidance => sent'[1].card_corners # None ]_vars

\* the tracker gave up four frames ago and one detection is left in the
\* history: the frame without a card is still analysed on the retained corners
C26_Witness ==
    /\ msg.type = "frame"
    /\ msg.frame = EmptyFrame
    /\ session.detection_history = <<TRUE, FALSE, FALSE, FALSE, FALSE>>
    /\ session.last_detected_corners # None
    /\ sent[1] # NoCardGuidance
    /\ sent[1].card_corners = session.last_detected_corners

----------------------------------------------------------------------------
(* ready_to_capture against the live guidance of the same response (Spec) *)

\* C27: every guidance response with ready_to_capture true also has
\* card_detected true, distance "optimal" and blur "sharp", after any sequence
\* of frame, capture and reset messages.
C27_ReadyImpliesGuidanceGood ==
    (msg.type = "frame" /\ sent[1].ready_to_capture)
    => ( /\ sent[1].card_detected
         /\ sent[1].distance = "optimal"
         /\ sent[1].blur = "sharp" )

----------------------------------------------------------------------------
(* One connection, with the frames without a card counted since the last   *)
(* located card (SpecRetain)                                               *)

\* the runs stop counting at this many frames without a card in a row
MaxMisses == 17

\* misses after one more frame
CountMisses(m, frame) ==
    IF Located(frame) THEN 0 ELSE IF m = -1 THEN -1 ELSE m + 1

\* a "frame" message, as FrameMessage
CountedFrameMessage(frame, mode) ==
    /\ misses < MaxMisses
    /\ HandleProcessed(frame, mode, ProcessFrame(session, frame, mode))
    /\ msg' = [ type |-> "frame", mode |-> mode, frame |-> frame ]
    /\ misses' = CountMisses(misses, frame)
    /\ UNCHANGED <<orderVars, distVars, detVars, valVars, isoVars, fnVars>>

\* a "reset" message, as ResetMessage
CountedResetMessage ==
    /\ session' = ResetTracking(session)
    /\ sent' = << [ type |-> "reset", message |-> "Session reset" ] >>
    /\ msg' = [ type |-> "reset", mode |-> "none" ]
    /\ valid_run' = 0
    /\ misses' = -1
    /\ UNCHANGED <<orderVars, distVars, detVars, valVars, isoVars, fnVars>>

NextRetain ==
    \/ \E frame \in SessFrames, mode \in Modes : CountedFrameMessage(frame, mode)
    \/ \E frame \in CaptureFrames : CaptureMessage(frame)
    \/ CountedResetMessage
    \/ RejectedMessage

SpecRetain == Init /\ [][NextRetain]_vars

\* C28 (bounded retention): when a located card is followed by frames in which
\* the locator finds nothing, without a reset, the tracker reports the card for
\* the first 10 of them only, and process_frame answers the 15th and every
\* later one with the no-card response; so corners are returned for at most 14
\* such frames.
C28_BoundedRetention ==
    msg.type = "frame"
    => ( /\ misses > MaxConsecutiveFailures =>
                ~session.detection_history[Len(session.detection_history)]
         /\ misses >= 15 =>
                ( /\ sent[1] = NoCardGuidance
                  /\ session.last_detected_corners = None ) )

\* the 15th frame without a card after a located one was answered with the
\* no-card response
C28_Witness ==
    /\ msg.type = "frame"
    /\ misses = 15
    /\ sent[1] = NoCardGuidance
    /\ session.detection_history = <<FALSE, FALSE, FALSE, FALSE, FALSE>>

----------------------------------------------------------------------------
(* _order_corners as a rearrangement of its input (SpecOrder) *)

\* C29: for every input of 4 distinct points, _order_corners returns a
\* permutation of its input: each input point appears exactly once in the
\* output.
C29_OrderIsPermutation ==
    ord1 # None =>
        \A i \in 1..4 : Cardinality({ j \in 1..4 : ord1[j] = quad[i] }) = 1

----------------------------------------------------------------------------
(* centering_guide.py: analyze_centering on an axis-parallel card of 4 x 3  *)
(* pixels, or a degenerate one of height 0, anywhere in a frame            *)
(* (SpecCenter)                                                            *)

\* frame.shape[:2] as <<width, height>>: a wide frame and a square one
CenterFrameSizes == { <<40, 25>>, <<25, 25>> }

\* the largest coordinate of the card's top-left corner
MaxShift == 36

\* the frame of an input
CenterFrame(a) == [ present |-> TRUE, width |-> a.size[1], height |-> a.size[2] ]

\* the card_corners of an input
CenterCard(a) == Rect(a.x0, a.y0, a.x0 + 4, a.y0 + a.card_height)

CenterInputs ==
    { a \in [ size : CenterFrameSizes, x0 : 0..MaxShift, y0 : 0..MaxShift,
              card_height : {0, 3} ] :
          a.x0 + 4 <= a.size[1] /\ a.y0 + a.card_height <= a.size[2] }

InitCenter ==
    /\ IsoIdle
    /\ RunIdle
    /\ arg \in CenterInputs
    /\ ret = None
    /\ OrderIdle
    /\ DistIdle
    /\ DetIdle
    /\ ValIdle
    /\ SessIdle

CallAnalyzeCentering ==
    /\ ret = None
    /\ ret' = AnalyzeCentering(CenterFrame(arg), CenterCard(arg))
    /\ UNCHANGED <<arg, runVars, orderVars, distVars, detVars, valVars, sessVars, isoVars>>

NextCenter == CallAnalyzeCentering

SpecCenter == InitCenter /\ [][NextCenter]_vars

\* twice the offsets dx and dy of the centre of the card from the centre of
\* the frame
TwiceDx == 2 * arg.x0 + 4 - arg.size[1]
TwiceDy == 2 * arg.y0 + arg.card_height - arg.size[2]

\* |dx| > 15% of the frame width, |dy| > 15% of the frame height
ExceedsX == 100 * Abs(TwiceDx) > 2 * CenterThresholdRatio * arg.size[1]
ExceedsY == 100 * Abs(TwiceDy) > 2 * CenterThresholdRatio * arg.size[2]

\* C30: analyze_centering reports centered exactly when |dx| <= 15% of the
\* frame width and |dy| <= 15% of the frame height; when not centered the
\* message is horizontal exactly when |dx| > |dy| (ties go to vertical), and the
\* axis it names is one whose offset exceeds its own threshold.
C30_CenteringMessage ==
    (ret # None /\ arg.card_height > 0)
    => ( /\ ret.is_centered <=> (~ExceedsX /\ ~ExceedsY)
         /\ ~ret.is_centered =>
                /\ ret.message \in {"Move document left", "Move document right"}
                       <=> Abs(TwiceDx) > Abs(TwiceDy)
                /\ ret.message \in {"Move document up", "Move document down"}
                       <=> Abs(TwiceDx) <= Abs(TwiceDy)
                /\ ret.message \in {"Move document left", "Move document right"}
                       => ExceedsX
                /\ ret.message \in {"Move document up", "Move document down"}
                       => ExceedsY )

====
